---------------------------- MODULE Spec2Model ----------------------------
(***************************************************************************)
(* A model of the Alberta deforestation dashboard (src/main.py): the       *)
(* polygon filter and the yearly aggregation of the Historical Trends      *)
(* section, the grid smoothing of the classifier predictions, the risk     *)
(* tier selection of the Classifier tab, and the script run (loaders,      *)
(* navigation, section dispatch).                                          *)
(*                                                                         *)
(* Numbers are exact integers.  Coordinates are integers; a probability of *)
(* the risk tier selection is an integer number of hundredths; a bin edge  *)
(* of the smoothing grid is kept as a numerator over a common denominator. *)
(* Library calls (pandas, numpy, scipy, shapely, streamlit) are modelled   *)
(* by what they do on the values the program hands them.                   *)
(***************************************************************************)
EXTENDS Integers, Sequences, FiniteSets, TLC

(***************************************************************************)
(* Bounds of the model.                                                    *)
(***************************************************************************)
MaxRows == 3
MaxLabel == 3
MaxSamples == 2
MaxCoord == 1
MaxProb == 1
MaxPoints == 2
MaxCalls == 2
MaxRaw == 3
MaxDrawings == 2

VARIABLES
    \* Historical Trends: filter_points_in_polygon and plot_loss_trend
    loss_df,        \* the historical table handed to the filter
    polygon,        \* st.session_state["polygon"], a GeoJSON feature
    filtered_df,    \* the filter's result
    trend_df,       \* plot_loss_trend's aggregate
    hist_pc,        \* where the section's code is
    hist_out        \* what the user is shown: "none", "warning", "plot"

VARIABLES
    \* apply_smoothing(df, resolution)
    cls_df,          \* the caller's frame, the argument df
    resolution,      \* the argument resolution
    df,              \* the local df, rebound by dropna
    lat_bins,        \* np.linspace edges, numerators over resolution - 1
    lon_bins,
    heatmap_grid,    \* the weighted histogram
    counts,          \* the histogram of sample counts
    avg_probs,       \* the cell means, in units of 1 / MeanScale
    smoothed_probs,  \* the filtered grid, in units of 1 / (MeanScale * W * W)
    smoothed_points, \* the rows of the returned frame
    sm_pc            \* where apply_smoothing is: "idle", "start", "coerced",
                     \* "binned", "smoothed", "done", "raised"

VARIABLES
    \* The Classifier tab
    classifier_df,   \* the smoothed predictions, module level
    risk_level,      \* the radio's value
    risk_df,         \* the tab's filtered_df, with its colours
    risk_pc          \* "idle", "start", "shown"

VARIABLES
    \* The script run
    files,           \* the input files present next to the script
    cache,           \* the paths st.cache_data holds a result for
    section,         \* st.session_state["section"]
    clicked,         \* the button whose click started this run, or "none"
    page,            \* what this run has rendered so far
    run_pc,          \* where the run is: "load_loss", "load_lstm", "load_cls",
                     \* "sidebar", "dispatch", "done", "stopped"
    smooth_calls     \* how often apply_smoothing ran in this session since
                     \* the files last changed

VARIABLES
    \* loadHistoricalData(path)
    raw_df,          \* the rows pd.read_csv returns: .geo, label, count
    loaded_df,       \* the table the loader returns
    load_pc          \* "idle", "start", "returned", "raised"

VARIABLES
    \* draw_polygon_map and the Historical Trends section around it
    all_drawings,    \* the drawings on the map, as st_folium returns them
    session_state,   \* st.session_state: the keys polygon, polygon_updated
    finalized,       \* the drawing the user finalized to start this run
    recent,          \* the last non-empty list of drawings the handler saw
    draw_pc          \* "idle", "rerun", "filter", "shown"

histVars == <<loss_df, polygon, filtered_df, trend_df, hist_pc, hist_out>>

smVars == <<cls_df, resolution, df, lat_bins, lon_bins, heatmap_grid, counts,
            avg_probs, smoothed_probs, smoothed_points, sm_pc>>

riskVars == <<classifier_df, risk_level, risk_df, risk_pc>>

appVars == <<files, cache, section, clicked, page, run_pc, smooth_calls>>

loadVars == <<raw_df, loaded_df, load_pc>>

drawVars == <<all_drawings, session_state, finalized, recent, draw_pc>>

vars == <<histVars, smVars, riskVars, appVars, loadVars, drawVars>>

(***************************************************************************)
(* Generic helpers.                                                        *)
(***************************************************************************)
Range(s) == {s[i] : i \in DOMAIN s}

SeqsUpTo(S, n) == UNION {[1..k -> S] : k \in 0..n}

RECURSIVE SetToSortedSeq(_)
SetToSortedSeq(S) ==
    IF S = {} THEN <<>>
    ELSE LET m == CHOOSE x \in S : \A y \in S : x <= y
         IN  <<m>> \o SetToSortedSeq(S \ {m})

Abs(x) == IF x < 0 THEN -x ELSE x

(***************************************************************************)
(* Data frames.  A frame has its column names, its index labels and its    *)
(* rows; a row maps each column name to the row's value.                   *)
(***************************************************************************)
Frame(cols, idx, rows) == [columns |-> cols, index |-> idx, rows |-> rows]

EmptyFrame == Frame(<<>>, <<>>, <<>>)

FrameLen(frame) == Len(frame.rows)

IsEmptyNever(frame) == FALSE

\* DataFrame.empty: an axis of the frame has length 0.
IsEmpty(frame) == Len(frame.columns) = 0 \/ Len(frame.rows) = 0

\* loadHistoricalData keeps exactly these columns.
LossColumns == <<"lat", "lon", "label", "count">>

LossRow(lat, lon, label, count) ==
    [lat |-> lat, lon |-> lon, label |-> label, count |-> count]

\* A frame as read from a file: the index is 0, 1, 2, ...
RangeFrame(cols, rows) == Frame(cols, [i \in 1..Len(rows) |-> i - 1], rows)

\* df[mask]: the rows (and their index labels) whose mask entry is true.
RECURSIVE MaskPositions(_, _)
MaskPositions(mask, i) ==
    IF i > Len(mask) THEN <<>>
    ELSE (IF mask[i] THEN <<i>> ELSE <<>>) \o MaskPositions(mask, i + 1)

BoolIndex(frame, mask) ==
    LET pos == MaskPositions(mask, 1)
    IN  Frame(frame.columns,
              [k \in 1..Len(pos) |-> frame.index[pos[k]]],
              [k \in 1..Len(pos) |-> frame.rows[pos[k]]])

\* df[col] = values: the column is appended when new, overwritten otherwise.
SetColumn(frame, col, values) ==
    Frame(IF col \in Range(frame.columns) THEN frame.columns
          ELSE Append(frame.columns, col),
          frame.index,
          [i \in 1..Len(frame.rows) |->
              [c \in (DOMAIN frame.rows[i]) \cup {col} |->
                  IF c = col THEN values[i] ELSE frame.rows[i][c]]])

(***************************************************************************)
(* shapely: shape(), Point and Polygon.contains.                           *)
(***************************************************************************)
Point(x, y) == <<x, y>>

\* shape(geojson["geometry"]) of a GeoJSON Polygon raises ValueError for an
\* exterior ring of one or two coordinates (a linear ring needs three).
ShapeRaises(geometry) == Len(geometry.coordinates[1]) \in {1, 2}

\* shape(geojson["geometry"]) of a GeoJSON Polygon: its exterior ring, which
\* shapely closes when its last coordinate is not its first.
Shape(geometry) ==
    LET ring == geometry.coordinates[1]
    IN  IF Len(ring) = 0 \/ ring[1] = ring[Len(ring)] THEN ring
        ELSE Append(ring, ring[1])

Cross(a, b, p) ==
    (b[1] - a[1]) * (p[2] - a[2]) - (b[2] - a[2]) * (p[1] - a[1])

OnSegment(a, b, p) ==
    /\ Cross(a, b, p) = 0
    /\ (IF a[1] <= b[1] THEN a[1] <= p[1] /\ p[1] <= b[1]
                        ELSE b[1] <= p[1] /\ p[1] <= a[1])
    /\ (IF a[2] <= b[2] THEN a[2] <= p[2] /\ p[2] <= b[2]
                        ELSE b[2] <= p[2] /\ p[2] <= a[2])

\* Whether the ray from p towards +x crosses the edge a-b.
RayCrosses(a, b, p) ==
    /\ (a[2] > p[2]) # (b[2] > p[2])
    /\ IF b[2] > a[2]
       THEN (p[1] - a[1]) * (b[2] - a[2]) < (p[2] - a[2]) * (b[1] - a[1])
       ELSE (p[1] - a[1]) * (b[2] - a[2]) > (p[2] - a[2]) * (b[1] - a[1])

\* Polygon.contains(point): the point is in the interior, not on the boundary.
PolygonContains(ring, p) ==
    LET edges == 1..(Len(ring) - 1)
    IN  /\ \A e \in edges : ~OnSegment(ring[e], ring[e + 1], p)
        /\ Cardinality({e \in edges : RayCrosses(ring[e], ring[e + 1], p)}) % 2 = 1

(***************************************************************************)
(* filter_points_in_polygon(frame, geojson_polygon)                           *)
(***************************************************************************)
RowPointSwapped(row) == Point(row["lat"], row["lon"])

\* lambda row: Point(row["lon"], row["lat"])
RowPoint(row) == Point(row["lon"], row["lat"])

\* df.apply(lambda row: ..., axis=1).  On a frame without rows pandas returns
\* an empty float Series (pandas >= 1.5), here the empty sequence.
ApplyRows(frame) == [i \in 1..Len(frame.rows) |-> RowPoint(frame.rows[i])]

\* df["point"].apply(polygon.contains)
ContainsMask(frame, ring) ==
    [i \in 1..Len(frame.rows) |-> PolygonContains(ring, frame.rows[i]["point"])]

\* df[mask].copy().  The mask of a frame without rows is an empty Series that
\* is no boolean indexer: pandas then selects the columns it lists, none.
FilterSelect(frame, mask) ==
    IF Len(mask) = 0 THEN Frame(<<>>, frame.index, <<>>)
    ELSE BoolIndex(frame, mask)

\* Line 73 raises before the frame is touched; otherwise lines 76-81.
FilterPointsInPolygon ==
    /\ hist_pc = "start"
    /\ \/ /\ ShapeRaises(polygon.geometry)
          /\ hist_pc' = "raised"
          /\ UNCHANGED <<loss_df, filtered_df>>
       \/ /\ ~ShapeRaises(polygon.geometry)
          /\ LET ring    == Shape(polygon.geometry)
                 withPt  == SetColumn(loss_df, "point", ApplyRows(loss_df))
             IN  /\ loss_df' = withPt
                 /\ filtered_df' = FilterSelect(withPt, ContainsMask(withPt, ring))
          /\ hist_pc' = "filtered"
    /\ UNCHANGED <<polygon, trend_df, hist_out>>
    /\ UNCHANGED <<smVars, riskVars, appVars, loadVars, drawVars>>

(***************************************************************************)
(* plot_loss_trend(filtered_df)                                            *)
(***************************************************************************)
RECURSIVE SumCount(_, _, _)
SumCount(rows, label, i) ==
    IF i > Len(rows) THEN 0
    ELSE (IF rows[i]["label"] = label THEN rows[i]["count"] ELSE 0)
         + SumCount(rows, label, i + 1)

RECURSIVE FirstCount(_, _, _)
FirstCount(rows, label, i) ==
    IF i > Len(rows) THEN 0
    ELSE IF rows[i]["label"] = label THEN rows[i]["count"]
    ELSE FirstCount(rows, label, i + 1)

GroupByFirst(frame) ==
    LET keys == SetToSortedSeq({frame.rows[i]["label"] : i \in 1..Len(frame.rows)})
    IN  RangeFrame(<<"lossyear", "loss_pixels">>,
            [k \in 1..Len(keys) |->
                [lossyear |-> keys[k],
                 loss_pixels |-> FirstCount(frame.rows, keys[k], 1)]])

\* filtered_df.groupby("label")["count"].sum().reset_index().rename(...):
\* one row per label, the labels ascending.
GroupBySum(frame) ==
    LET keys == SetToSortedSeq({frame.rows[i]["label"] : i \in 1..Len(frame.rows)})
    IN  RangeFrame(<<"lossyear", "loss_pixels">>,
            [k \in 1..Len(keys) |->
                [lossyear |-> keys[k],
                 loss_pixels |-> SumCount(frame.rows, keys[k], 1)]])

\* trend_df["year"] = trend_df["lossyear"] + 2000
AddYear(frame) ==
    SetColumn(frame, "year", [i \in 1..Len(frame.rows) |-> frame.rows[i]["lossyear"] + 2000])

\* trend_df.sort_values("year"): the positions in ascending order of the key.
RECURSIVE SortedPositions(_, _, _)
SortedPositions(frame, col, left) ==
    IF left = {} THEN <<>>
    ELSE LET m == CHOOSE i \in left : \A j \in left :
                      \/ frame.rows[i][col] < frame.rows[j][col]
                      \/ (frame.rows[i][col] = frame.rows[j][col] /\ i <= j)
         IN  <<m>> \o SortedPositions(frame, col, left \ {m})

SortValues(frame, col) ==
    LET pos == SortedPositions(frame, col, 1..Len(frame.rows))
    IN  Frame(frame.columns,
              [k \in 1..Len(pos) |-> frame.index[pos[k]]],
              [k \in 1..Len(pos) |-> frame.rows[pos[k]]])

PlotLossTrend ==
    /\ hist_pc = "filtered"
    /\ \/ /\ IsEmpty(filtered_df)
          /\ hist_out' = "warning"
          /\ UNCHANGED trend_df
       \/ /\ ~IsEmpty(filtered_df)
          /\ trend_df' = SortValues(AddYear(GroupBySum(filtered_df)), "year")
          /\ hist_out' = "plot"
    /\ hist_pc' = "done"
    /\ UNCHANGED <<loss_df, polygon, filtered_df>>
    /\ UNCHANGED <<smVars, riskVars, appVars, loadVars, drawVars>>

(***************************************************************************)
(* Inputs of the historical pipeline.                                      *)
(***************************************************************************)
Feature(ring) ==
    [type |-> "Feature",
     geometry |-> [type |-> "Polygon", coordinates |-> <<ring>>]]

\* Rings of (lon, lat) vertices, closed as the drawing plugin emits them.
SquareRing == <<<<0, 0>>, <<0, 10>>, <<10, 10>>, <<10, 0>>, <<0, 0>>>>
TriangleRing == <<<<0, 0>>, <<10, 0>>, <<10, 10>>, <<0, 0>>>>
EllRing ==
    << <<0, 0>>, <<10, 0>>, <<10, 4>>, <<4, 4>>, <<4, 10>>, <<0, 10>>, <<0, 0>> >>

Rings == {SquareRing, TriangleRing, EllRing}

ConvexRings == {SquareRing, TriangleRing}

\* Rings that are no closed ring of three vertices or more: two vertices, the
\* square and the triangle without their closing coordinate.
TwoVertexRing == <<<<0, 0>>, <<10, 10>>>>
OpenSquareRing == SubSeq(SquareRing, 1, 4)
OpenTriangleRing == SubSeq(TriangleRing, 1, 3)

DegenerateRings == {TwoVertexRing, OpenSquareRing, OpenTriangleRing}

\* Historical samples: inside, outside and on the boundary of the rings.
LossSamples ==
    { LossRow(5, 5, 1, 10),  LossRow(2, 7, 1, 5),   LossRow(7, 2, 2, 3),
      LossRow(15, 15, 2, 7), LossRow(5, -1, 3, 1),  LossRow(5, 10, 1, 2) }

\* Filtered samples handed to the aggregation directly.
CountSamples == {3, 5, 10}

AggSamples ==
    { [lat |-> 5, lon |-> 5, label |-> l, count |-> c, point |-> Point(5, 5)] :
        l \in 1..MaxLabel, c \in CountSamples }

FilteredColumns == Append(LossColumns, "point")

HistInit ==
    /\ loss_df \in {RangeFrame(LossColumns, rows) :
                        rows \in SeqsUpTo(LossSamples, MaxRows)}
    /\ polygon \in {Feature(r) : r \in Rings}
    /\ filtered_df = EmptyFrame
    /\ trend_df = EmptyFrame
    /\ hist_pc = "start"
    /\ hist_out = "none"

\* The filter called with a polygon that is no closed ring.
PolyInit ==
    /\ loss_df \in {RangeFrame(LossColumns, rows) :
                        rows \in SeqsUpTo(LossSamples, MaxRows)}
    /\ polygon \in {Feature(r) : r \in DegenerateRings \cup {SquareRing}}
    /\ filtered_df = EmptyFrame
    /\ trend_df = EmptyFrame
    /\ hist_pc = "start"
    /\ hist_out = "none"

AggInit ==
    /\ loss_df = RangeFrame(LossColumns, <<>>)
    /\ polygon = Feature(SquareRing)
    /\ filtered_df \in {RangeFrame(FilteredColumns, rows) :
                            rows \in SeqsUpTo(AggSamples, MaxRows)}
    /\ trend_df = EmptyFrame
    /\ hist_pc = "filtered"
    /\ hist_out = "none"

(***************************************************************************)
(* apply_smoothing(frame, resolution)                                         *)
(*                                                                         *)
(* A cell of the caller's frame is a number, a missing value (NaN) or a    *)
(* text that is no number.                                                 *)
(***************************************************************************)
Num(n) == [kind |-> "num", val |-> n]
NaN == [kind |-> "nan", val |-> 0]
Text == [kind |-> "text", val |-> 0]

SmoothColumns == <<"lat", "lon", "prob">>

\* df.dropna(subset=[...]): the rows with no missing value in the subset.
DropNa(frame, subset) ==
    BoolIndex(frame, [i \in 1..Len(frame.rows) |->
                         \A c \in Range(subset) : frame.rows[i][c].kind # "nan"])

\* pd.to_numeric(..., errors="coerce"): what is no number becomes NaN.
ToNumeric(cell) == IF cell.kind = "num" THEN cell ELSE NaN

CoerceColumn(frame, col) ==
    SetColumn(frame, col,
              [i \in 1..Len(frame.rows) |-> ToNumeric(frame.rows[i][col])])

\* Lines 195-199: the frame apply_smoothing works on.
Coerced(frame) ==
    DropNa(CoerceColumn(CoerceColumn(CoerceColumn(
               DropNa(frame, SmoothColumns), "lat"), "lon"), "prob"),
           SmoothColumns)

\* df[col].values
Values(frame, col) == [i \in 1..Len(frame.rows) |-> frame.rows[i][col].val]

SeqMin(s) == CHOOSE x \in Range(s) : \A y \in Range(s) : x <= y

SeqMax(s) == CHOOSE x \in Range(s) : \A y \in Range(s) : x >= y

\* np.linspace(lo, hi, num): num evenly spaced edges from lo to hi, the edge
\* k being num[k] / den.
Linspace(lo, hi, num) ==
    [den |-> num - 1,
     num |-> [k \in 1..num |-> lo * (num - 1) + (k - 1) * (hi - lo)]]

\* np.searchsorted(edges, x, side="right"): how many edges are <= x.
SearchSortedRight(bins, x) ==
    Cardinality({k \in 1..Len(bins.num) : bins.num[k] <= x * bins.den})

BinIndexNoEdgeFix(bins, x) == SearchSortedRight(bins, x)

\* The bin numpy's histogramdd counts x in: 0 and Len(edges) are the outliers;
\* a value on the rightmost edge is shifted into the last bin.
BinIndex(bins, x) ==
    IF x * bins.den = bins.num[Len(bins.num)]
    THEN SearchSortedRight(bins, x) - 1
    ELSE SearchSortedRight(bins, x)

RECURSIVE SumOver(_, _)
SumOver(w, left) ==
    IF left = {} THEN 0
    ELSE LET s == CHOOSE k \in left : TRUE
         IN  w[s] + SumOver(w, left \ {s})

\* np.histogram2d(xs, ys, bins=[xbins, ybins], weights=w): the outlier bins
\* are cut off, the cell (i, j) here is numpy's [i - 1, j - 1].
Histogram2d(xs, ys, xbins, ybins, w) ==
    LET bx == [s \in 1..Len(xs) |-> BinIndex(xbins, xs[s])]
        by == [s \in 1..Len(ys) |-> BinIndex(ybins, ys[s])]
    IN  [i \in 1..(Len(xbins.num) - 1) |->
            [j \in 1..(Len(ybins.num) - 1) |->
                SumOver(w, {s \in 1..Len(xs) : bx[s] = i /\ by[s] = j})]]

Ones(n) == [s \in 1..n |-> 1]

RECURSIVE Gcd(_, _)
Gcd(a, b) == IF b = 0 THEN a ELSE Gcd(b, a % b)

RECURSIVE LcmUpTo(_)
LcmUpTo(n) == IF n <= 1 THEN 1 ELSE (LcmUpTo(n - 1) * n) \div Gcd(LcmUpTo(n - 1), n)

\* The unit of a cell mean: every mean of at most MaxSamples samples is a
\* whole number of 1 / MeanScale.
MeanScale == LcmUpTo(MaxSamples)

\* The weighted sum of a cell in place of its mean.
DivideNever(h, c) ==
    [i \in DOMAIN h |-> [j \in DOMAIN h[i] |-> h[i][j] * MeanScale]]

\* np.divide(h, c, out=zeros, where=c != 0)
Divide(h, c) ==
    [i \in DOMAIN h |->
        [j \in DOMAIN h[i] |->
            IF c[i][j] # 0 THEN (h[i][j] * MeanScale) \div c[i][j] ELSE 0]]

\* scipy's gaussian_filter(sigma=1.5): truncate = 4.0, so the kernel reaches
\* int(4.0 * 1.5 + 0.5) = 6 cells to each side.
KernelRadius == 6

\* exp(-d * d / (2 * 1.5 * 1.5)), in units of the outermost weight of the
\* kernel and rounded up, so that no positive weight becomes zero.
KernelWeight(d) ==
    CASE d = 0 -> 2981
      [] d = 1 -> 2387
      [] d = 2 -> 1226
      [] d = 3 -> 404
      [] d = 4 -> 86
      [] d = 5 -> 12
      [] OTHER -> 1

\* mode="wrap": (a b c d | a b c d | a b c d)
WrapIndex(i, n) == ((i - 1) % n) + 1

\* mode="reflect", scipy's default: (d c b a | a b c d | d c b a)
ReflectIndex(i, n) ==
    LET p == (i - 1) % (2 * n)
    IN  IF p < n THEN p + 1 ELSE 2 * n - p

RECURSIVE SeqSum(_, _)
SeqSum(s, i) == IF i > Len(s) THEN 0 ELSE s[i] + SeqSum(s, i + 1)

\* correlate1d of one line of n cells with the kernel.
Correlate1d(line, n) ==
    [i \in 1..n |->
        SeqSum([t \in 1..(2 * KernelRadius + 1) |->
                   KernelWeight(Abs(t - KernelRadius - 1))
                   * line[ReflectIndex(i + t - KernelRadius - 1, n)]], 1)]

\* The sequence s, its elements written out.
Materialized(s) == SubSeq(s, 1, Len(s))

\* gaussian_filter: the kernel along axis 0, then along axis 1 of the grid
\* that the first pass gave.
GaussianFilter(g) ==
    LET n0 == Len(g)
        n1 == Len(g[1])
        Axis0(a) ==
            Materialized([i \in 1..n0 |->
                Materialized([j \in 1..n1 |->
                    Correlate1d([k \in 1..n0 |-> a[k][j]], n0)[i]])])
        Axis1(a) == [i \in 1..n0 |-> Correlate1d(a[i], n1)]
    IN  CHOOSE r \in {Axis1(p) : p \in {Axis0(g)}} : TRUE

\* (bins[:-1] + bins[1:]) / 2, the centre k being num[k] / den.
Centers(bins) ==
    [den |-> 2 * bins.den,
     num |-> [k \in 1..(Len(bins.num) - 1) |-> bins.num[k] + bins.num[k + 1]]]

EmitsNonNegative(prob) == prob >= 0

\* if prob > 0:
Emits(prob) == prob > 0

\* The loop of lines 220-228 from the flat position k on: i, j in row-major
\* order over range(resolution - 1).
RECURSIVE EmitFrom(_, _, _, _, _)
EmitFrom(sm, latc, lonc, n, k) ==
    IF k > n * n THEN <<>>
    ELSE LET i == ((k - 1) \div n) + 1
             j == ((k - 1) % n) + 1
         IN  (IF Emits(sm[i][j])
              THEN << [lat  |-> [num |-> latc.num[i], den |-> latc.den],
                       lon  |-> [num |-> lonc.num[j], den |-> lonc.den],
                       prob |-> sm[i][j]] >>
              ELSE <<>>)
             \o EmitFrom(sm, latc, lonc, n, k + 1)

NoGrid == <<>>

NoBins == [den |-> 0, num |-> <<>>]

\* Lines 195-203.
SmoothCoerce ==
    /\ sm_pc = "start"
    /\ df' = Coerced(cls_df)
    /\ sm_pc' = "coerced"
    /\ UNCHANGED <<cls_df, resolution, lat_bins, lon_bins, heatmap_grid, counts,
                   avg_probs, smoothed_probs, smoothed_points>>
    /\ UNCHANGED <<histVars, riskVars, appVars, loadVars, drawVars>>

\* Lines 205-211.  lats.min() of no values raises ValueError.
SmoothBin ==
    /\ sm_pc = "coerced"
    /\ \/ /\ Len(df.rows) = 0
          /\ sm_pc' = "raised"
          /\ UNCHANGED <<lat_bins, lon_bins, heatmap_grid, counts, avg_probs>>
       \/ /\ Len(df.rows) > 0
          /\ LET lats  == Values(df, "lat")
                 lons  == Values(df, "lon")
                 probs == Values(df, "prob")
                 latb  == Linspace(SeqMin(lats), SeqMax(lats), resolution)
                 lonb  == Linspace(SeqMin(lons), SeqMax(lons), resolution)
                 h     == Histogram2d(lats, lons, latb, lonb, probs)
                 c     == Histogram2d(lats, lons, latb, lonb, Ones(Len(lats)))
             IN  /\ lat_bins' = latb
                 /\ lon_bins' = lonb
                 /\ heatmap_grid' = h
                 /\ counts' = c
                 /\ avg_probs' = Divide(h, c)
          /\ sm_pc' = "binned"
    /\ UNCHANGED <<cls_df, resolution, df, smoothed_probs, smoothed_points>>
    /\ UNCHANGED <<histVars, riskVars, appVars, loadVars, drawVars>>

\* Line 213.
SmoothFilter ==
    /\ sm_pc = "binned"
    /\ smoothed_probs' = GaussianFilter(avg_probs)
    /\ sm_pc' = "smoothed"
    /\ UNCHANGED <<cls_df, resolution, df, lat_bins, lon_bins, heatmap_grid,
                   counts, avg_probs, smoothed_points>>
    /\ UNCHANGED <<histVars, riskVars, appVars, loadVars, drawVars>>

\* Lines 215-230.
SmoothEmit ==
    /\ sm_pc = "smoothed"
    /\ smoothed_points' = EmitFrom(smoothed_probs, Centers(lat_bins),
                                   Centers(lon_bins), resolution - 1, 1)
    /\ sm_pc' = "done"
    /\ UNCHANGED <<cls_df, resolution, df, lat_bins, lon_bins, heatmap_grid,
                   counts, avg_probs, smoothed_probs>>
    /\ UNCHANGED <<histVars, riskVars, appVars, loadVars, drawVars>>

(***************************************************************************)
(* Inputs of apply_smoothing.                                              *)
(***************************************************************************)
SmoothRow(lat, lon, prob) == [lat |-> lat, lon |-> lon, prob |-> prob]

\* Rows of numbers with a probability of zero or a positive one, a row with a
\* missing latitude, a row whose probability is no number.
SmoothSamples ==
    { SmoothRow(Num(a), Num(o), Num(p)) :
        a \in 0..MaxCoord, o \in 0..MaxCoord, p \in {0, MaxProb} }
    \cup { SmoothRow(NaN, Num(0), Num(1)), SmoothRow(Num(0), Num(0), Text) }

\* One cell per axis, two cells, and the smallest grid with cells further
\* apart than the kernel reaches.  (The program calls with 300.)
Resolutions == {2, 3, KernelRadius + 3}

SmoothInit ==
    /\ cls_df \in {RangeFrame(SmoothColumns, rows) :
                      rows \in SeqsUpTo(SmoothSamples, MaxSamples)}
    /\ resolution \in Resolutions
    /\ df = EmptyFrame
    /\ lat_bins = NoBins
    /\ lon_bins = NoBins
    /\ heatmap_grid = NoGrid
    /\ counts = NoGrid
    /\ avg_probs = NoGrid
    /\ smoothed_probs = NoGrid
    /\ smoothed_points = <<>>
    /\ sm_pc = "start"

SmoothIdle ==
    /\ cls_df = RangeFrame(SmoothColumns, <<>>)
    /\ resolution = 2
    /\ df = EmptyFrame
    /\ lat_bins = NoBins
    /\ lon_bins = NoBins
    /\ heatmap_grid = NoGrid
    /\ counts = NoGrid
    /\ avg_probs = NoGrid
    /\ smoothed_probs = NoGrid
    /\ smoothed_points = <<>>
    /\ sm_pc = "idle"

HistIdle ==
    /\ loss_df = RangeFrame(LossColumns, <<>>)
    /\ polygon = Feature(SquareRing)
    /\ filtered_df = EmptyFrame
    /\ trend_df = EmptyFrame
    /\ hist_pc = "idle"
    /\ hist_out = "none"

(***************************************************************************)
(* The Classifier tab: the risk tier selection and get_color.              *)
(* A probability is a whole number of hundredths.                          *)
(***************************************************************************)
LOW == 4
MED == 19
HIGH == 29

\* options=["All", "Low", "Medium", "High"]
RiskOptions == <<"All", "Low", "Medium", "High">>

ProbMask(frame, P(_)) == [i \in 1..Len(frame.rows) |-> P(frame.rows[i]["prob"])]

RiskFilterClosed(frame, level) ==
    IF level = "High"
    THEN BoolIndex(frame, ProbMask(frame, LAMBDA p : p >= HIGH))
    ELSE IF level = "Medium"
    THEN BoolIndex(frame, ProbMask(frame, LAMBDA p : p >= MED /\ p <= HIGH))
    ELSE IF level = "Low"
    THEN BoolIndex(frame, ProbMask(frame, LAMBDA p : p >= LOW /\ p <= MED))
    ELSE BoolIndex(frame, ProbMask(frame, LAMBDA p : p >= LOW))

\* Lines 449-456.
RiskFilter(frame, level) ==
    IF level = "High"
    THEN BoolIndex(frame, ProbMask(frame, LAMBDA p : p >= HIGH))
    ELSE IF level = "Medium"
    THEN BoolIndex(frame, ProbMask(frame, LAMBDA p : p >= MED /\ p < HIGH))
    ELSE IF level = "Low"
    THEN BoolIndex(frame, ProbMask(frame, LAMBDA p : p >= LOW /\ p < MED))
    ELSE BoolIndex(frame, ProbMask(frame, LAMBDA p : p >= LOW))

DarkRed == <<139, 0, 0>>
OrangeRed == <<255, 69, 0>>
Orange == <<255, 165, 0>>

get_color(prob) ==
    IF prob >= HIGH THEN DarkRed
    ELSE IF prob >= MED THEN OrangeRed
    ELSE Orange

\* Lines 440-469: the radio's value, the selection and its colours.
ClassifierTab ==
    /\ risk_pc \in {"start", "shown"}
    /\ \E level \in Range(RiskOptions) :
           /\ risk_level' = level
           /\ LET sel == RiskFilter(classifier_df, level)
              IN  risk_df' = SetColumn(sel, "color",
                      [i \in 1..Len(sel.rows) |-> get_color(sel.rows[i]["prob"])])
    /\ risk_pc' = "shown"
    /\ UNCHANGED classifier_df
    /\ UNCHANGED <<histVars, smVars, appVars, loadVars, drawVars>>

\* Smoothed probabilities around the thresholds.
ProbSamples == {3, 4, 18, 19, 28, 29, 100}

RiskInit ==
    /\ classifier_df \in {RangeFrame(SmoothColumns, rows) :
           rows \in SeqsUpTo({[lat |-> 0, lon |-> 0, prob |-> p] : p \in ProbSamples},
                             MaxPoints)}
    /\ risk_level = "All"
    /\ risk_df = EmptyFrame
    /\ risk_pc = "start"

RiskIdle ==
    /\ classifier_df = RangeFrame(SmoothColumns, <<>>)
    /\ risk_level = "All"
    /\ risk_df = EmptyFrame
    /\ risk_pc = "idle"

(***************************************************************************)
(* The script run: the loaders at module level, the sidebar, the section.  *)
(***************************************************************************)
\* loss_data.csv, lstm_predictions.csv, classifier_predictions.csv
LOSS_PATH == "loss_data.csv"
LSTM_PATH == "lstm_predictions.csv"
CLS_PATH == "classifier_predictions.csv"

Paths == {LOSS_PATH, LSTM_PATH, CLS_PATH}

SECTIONS == <<"Introduction", "Historical Trends", "Models", "Insights", "About">>

\* What a run renders: st.error of a loader, the sidebar, a section.
ErrorOf(path) == <<"error", path>>

Nav == <<"sidebar", "Navigation">>

SectionOf(sec) == <<"section", sec>>

\* A loader under @st.cache_data: a cached result is returned without a look
\* at the file; a missing file is reported and the script run stopped.
CachedLoad(path, next) ==
    \/ /\ path \in cache
       /\ run_pc' = next
       /\ UNCHANGED <<cache, page>>
    \/ /\ path \notin cache
       /\ path \notin files
       /\ page' = page \cup {ErrorOf(path)}
       /\ run_pc' = "stopped"
       /\ UNCHANGED cache
    \/ /\ path \notin cache
       /\ path \in files
       /\ cache' = cache \cup {path}
       /\ run_pc' = next
       /\ UNCHANGED page

\* Line 167.
LoadHistorical ==
    /\ run_pc = "load_loss"
    /\ CachedLoad(LOSS_PATH, "load_lstm")
    /\ UNCHANGED <<files, section, clicked, smooth_calls>>
    /\ UNCHANGED <<histVars, smVars, riskVars, loadVars, drawVars>>

\* Lines 180-181.
LoadLSTM ==
    /\ run_pc = "load_lstm"
    /\ CachedLoad(LSTM_PATH, "load_cls")
    /\ UNCHANGED <<files, section, clicked, smooth_calls>>
    /\ UNCHANGED <<histVars, smVars, riskVars, loadVars, drawVars>>

\* Line 232: loadClassifierPredictions has no @st.cache_data; every run that
\* finds the file reads it and calls apply_smoothing (line 190).
LoadClassifier ==
    /\ run_pc = "load_cls"
    /\ \/ /\ CLS_PATH \notin files
          /\ page' = page \cup {ErrorOf(CLS_PATH)}
          /\ run_pc' = "stopped"
          /\ UNCHANGED smooth_calls
       \/ /\ CLS_PATH \in files
          /\ smooth_calls' = smooth_calls + 1
          /\ run_pc' = "sidebar"
          /\ UNCHANGED page
    /\ UNCHANGED <<files, cache, section, clicked>>
    /\ UNCHANGED <<histVars, smVars, riskVars, loadVars, drawVars>>

\* Lines 273-287: the navigation; a clicked button sets the section and
\* reruns the script.
Sidebar ==
    /\ run_pc = "sidebar"
    /\ \/ /\ clicked \in Range(SECTIONS)
          /\ section' = clicked
          /\ clicked' = "none"
          /\ page' = {}
          /\ run_pc' = "load_loss"
       \/ /\ clicked \notin Range(SECTIONS)
          /\ page' = page \cup {Nav}
          /\ run_pc' = "dispatch"
          /\ UNCHANGED <<section, clicked>>
    /\ UNCHANGED <<files, cache, smooth_calls>>
    /\ UNCHANGED <<histVars, smVars, riskVars, loadVars, drawVars>>

\* Lines 292-789: the selected section is rendered; "Get Started" in the
\* Introduction selects Historical Trends and reruns the script.
Dispatch ==
    /\ run_pc = "dispatch"
    /\ \/ /\ section = "Introduction"
          /\ clicked = "Get Started"
          /\ section' = "Historical Trends"
          /\ clicked' = "none"
          /\ page' = {}
          /\ run_pc' = "load_loss"
       \/ /\ ~(section = "Introduction" /\ clicked = "Get Started")
          /\ page' = page \cup {SectionOf(section)}
          /\ clicked' = "none"
          /\ run_pc' = "done"
          /\ UNCHANGED section
    /\ UNCHANGED <<files, cache, smooth_calls>>
    /\ UNCHANGED <<histVars, smVars, riskVars, loadVars, drawVars>>

\* The user clicks a navigation button that is shown and enabled, or "Get
\* Started": the script runs again.
UserClick ==
    /\ run_pc = "done"
    /\ smooth_calls < MaxCalls
    /\ \/ \E sec \in Range(SECTIONS) :
              /\ Nav \in page
              /\ sec # section
              /\ clicked' = sec
       \/ /\ SectionOf("Introduction") \in page
          /\ clicked' = "Get Started"
    /\ page' = {}
    /\ run_pc' = "load_loss"
    /\ UNCHANGED <<files, cache, section, smooth_calls>>
    /\ UNCHANGED <<histVars, smVars, riskVars, loadVars, drawVars>>

\* The user reloads the page: a new session, the cache of the process kept.
Reload ==
    /\ run_pc \in {"done", "stopped"}
    /\ section' = "Introduction"
    /\ clicked' = "none"
    /\ page' = {}
    /\ run_pc' = "load_loss"
    /\ smooth_calls' = 0
    /\ UNCHANGED <<files, cache>>
    /\ UNCHANGED <<histVars, smVars, riskVars, loadVars, drawVars>>

\* Between two runs a file is removed from, or put back next to, the script.
FileChange ==
    /\ run_pc \in {"done", "stopped"}
    /\ \E path \in Paths :
           files' = IF path \in files THEN files \ {path} ELSE files \cup {path}
    /\ smooth_calls' = 0
    /\ UNCHANGED <<cache, section, clicked, page, run_pc>>
    /\ UNCHANGED <<histVars, smVars, riskVars, loadVars, drawVars>>

AppInit ==
    /\ files \in SUBSET Paths
    /\ cache = {}
    /\ section = "Introduction"
    /\ clicked = "none"
    /\ page = {}
    /\ run_pc = "load_loss"
    /\ smooth_calls = 0

AppIdle ==
    /\ files = Paths
    /\ cache = {}
    /\ section = "Introduction"
    /\ clicked = "none"
    /\ page = {}
    /\ run_pc = "idle"
    /\ smooth_calls = 0

\* No drawing: a feature without a ring.
NoDrawing == Feature(<<>>)

\* st.session_state without the keys polygon and polygon_updated.
NoKeys == [k \in {} |-> TRUE]

LoadIdle ==
    /\ raw_df = EmptyFrame
    /\ loaded_df = EmptyFrame
    /\ load_pc = "idle"

DrawIdle ==
    /\ all_drawings = <<>>
    /\ session_state = NoKeys
    /\ finalized = NoDrawing
    /\ recent = <<>>
    /\ draw_pc = "idle"

(***************************************************************************)
(* loadHistoricalData(path): the rows of the file, their geometry parsed.  *)
(* A .geo cell is modelled by what json.loads makes of it: it raises, or   *)
(* it gives a dict with a coordinates array.                               *)
(***************************************************************************)
Geo(coords) == [json |-> TRUE, coordinates |-> coords]

\* A .geo cell that is no JSON text.
BadGeo == [json |-> FALSE, coordinates |-> <<>>]

RawColumns == <<".geo", "label", "count">>

RawRow(geo, label, count) == [geo |-> geo, label |-> label, count |-> count]

\* json.loads raises on text that is no JSON; "lon, lat = ..." raises
\* ValueError unless the array has exactly two elements.
ParseGeoRaises(geo) == ~geo.json \/ Len(geo.coordinates) # 2

parse_geo_swapped(geo) == <<geo.coordinates[1], geo.coordinates[2]>>

\* lon, lat = geo_dict["coordinates"]; return pd.Series([lat, lon])
parse_geo(geo) == <<geo.coordinates[2], geo.coordinates[1]>>

\* df[["lat", "lon"]] = df[".geo"].apply(parse_geo), then the four columns.
ParsedRow(row) ==
    LossRow(parse_geo(row.geo)[1], parse_geo(row.geo)[2], row.label, row.count)

\* Lines 153-165.  The first row that parse_geo rejects ends the load.  Of a
\* file without rows the apply gives an empty Series: assigning it to the
\* two columns raises ValueError in pandas that checks its length against
\* the key, and gives two empty columns in pandas that does not.
loadHistoricalData ==
    /\ load_pc = "start"
    /\ \/ /\ \E i \in 1..Len(raw_df.rows) : ParseGeoRaises(raw_df.rows[i].geo)
          /\ load_pc' = "raised"
          /\ UNCHANGED loaded_df
       \/ /\ Len(raw_df.rows) = 0
          /\ load_pc' = "raised"
          /\ UNCHANGED loaded_df
       \/ /\ \A i \in 1..Len(raw_df.rows) : ~ParseGeoRaises(raw_df.rows[i].geo)
          /\ loaded_df' = Frame(LossColumns, raw_df.index,
                                [i \in 1..Len(raw_df.rows) |-> ParsedRow(raw_df.rows[i])])
          /\ load_pc' = "returned"
    /\ UNCHANGED raw_df
    /\ UNCHANGED <<histVars, smVars, riskVars, appVars, drawVars>>

\* Rows with a two-element array, with one, three and no element, and with
\* text that is no JSON.
RawSamples ==
    { RawRow(Geo(<<3, 7>>), 1, 5),    RawRow(Geo(<<8, 2>>), 2, 3),
      RawRow(Geo(<<3>>), 1, 5),       RawRow(Geo(<<>>), 2, 5),
      RawRow(Geo(<<3, 7, 1>>), 1, 5), RawRow(BadGeo, 1, 5) }

LoadInit ==
    /\ raw_df \in {RangeFrame(RawColumns, rows) :
                       rows \in SeqsUpTo(RawSamples, MaxRaw)}
    /\ loaded_df = EmptyFrame
    /\ load_pc = "start"

(***************************************************************************)
(* draw_polygon_map and the Historical Trends section that calls it.       *)
(***************************************************************************)
StoredLast(drawings) == drawings[Len(drawings)]

\* drawings[0]
Stored(drawings) == drawings[1]

\* del st.session_state["polygon"]
DelKey(state, key) == [k \in DOMAIN state \ {key} |-> state[k]]

\* Lines 135-145 on a result that holds the list of drawings: a list that is
\* not empty stores its first drawing; an empty one (or None) deletes the
\* stored polygon, if there is one.
HandleDrawing(state, drawings) ==
    IF Len(drawings) > 0
    THEN ("polygon" :> Stored(drawings)) @@ ("polygon_updated" :> TRUE) @@ state
    ELSE IF "polygon" \in DOMAIN state
    THEN ("polygon_updated" :> FALSE) @@ DelKey(state, "polygon")
    ELSE state

\* The run has rendered the map and what follows it.
MapShown ==
    \/ draw_pc = "shown"
    \/ draw_pc = "filter" /\ hist_pc \in {"done", "raised"}

\* The user finalizes a polygon on the map, next to the drawings that are
\* there: the component reports all drawings and the script runs again.
UserDraw ==
    /\ MapShown
    /\ Len(all_drawings) < MaxDrawings
    /\ \E ring \in Rings :
           /\ all_drawings' = Append(all_drawings, Feature(ring))
           /\ finalized' = Feature(ring)
    /\ draw_pc' = "rerun"
    /\ UNCHANGED <<session_state, recent>>
    /\ UNCHANGED <<histVars, smVars, riskVars, appVars, loadVars>>

\* The user deletes a drawing with the plugin's delete tool.
UserDelete ==
    /\ MapShown
    /\ \E i \in 1..Len(all_drawings) :
           all_drawings' = SubSeq(all_drawings, 1, i - 1)
                               \o SubSeq(all_drawings, i + 1, Len(all_drawings))
    /\ finalized' = NoDrawing
    /\ draw_pc' = "rerun"
    /\ UNCHANGED <<session_state, recent>>
    /\ UNCHANGED <<histVars, smVars, riskVars, appVars, loadVars>>

\* The user leaves the section and comes back: the map is built anew and
\* reports no drawings.
Revisit ==
    /\ MapShown
    /\ all_drawings' = <<>>
    /\ finalized' = NoDrawing
    /\ draw_pc' = "rerun"
    /\ UNCHANGED <<session_state, recent>>
    /\ UNCHANGED <<histVars, smVars, riskVars, appVars, loadVars>>

\* Lines 394-402: draw_polygon_map(), then the filter on the stored polygon
\* if there is one, st.info if not.
HistoricalTrends ==
    /\ draw_pc = "rerun"
    /\ session_state' = HandleDrawing(session_state, all_drawings)
    /\ recent' = IF Len(all_drawings) > 0 THEN all_drawings ELSE recent
    /\ \/ /\ "polygon" \in DOMAIN session_state'
          /\ polygon' = session_state'["polygon"]
          /\ filtered_df' = EmptyFrame
          /\ trend_df' = EmptyFrame
          /\ hist_pc' = "start"
          /\ hist_out' = "none"
          /\ draw_pc' = "filter"
       \/ /\ "polygon" \notin DOMAIN session_state'
          /\ hist_pc' = "idle"
          /\ hist_out' = "info"
          /\ draw_pc' = "shown"
          /\ UNCHANGED <<polygon, filtered_df, trend_df>>
    /\ UNCHANGED <<loss_df, all_drawings, finalized>>
    /\ UNCHANGED <<smVars, riskVars, appVars, loadVars>>

\* The section's first run of a session, on a cached table of up to one row.
DrawInit ==
    /\ loss_df \in {RangeFrame(LossColumns, rows) : rows \in SeqsUpTo(LossSamples, 1)}
    /\ polygon = NoDrawing
    /\ filtered_df = EmptyFrame
    /\ trend_df = EmptyFrame
    /\ hist_pc = "idle"
    /\ hist_out = "none"
    /\ all_drawings = <<>>
    /\ session_state = NoKeys
    /\ finalized = NoDrawing
    /\ recent = <<>>
    /\ draw_pc = "rerun"

(***************************************************************************)
(* Specifications.                                                         *)
(***************************************************************************)
\* The Historical Trends pipeline: the filter, then the aggregation.
HistNext == FilterPointsInPolygon \/ PlotLossTrend

InitHist == HistInit /\ SmoothIdle /\ RiskIdle /\ AppIdle /\ LoadIdle /\ DrawIdle

SpecHist == InitHist /\ [][HistNext]_vars

\* The Historical Trends pipeline on polygons that may be degenerate.
PolyNext == FilterPointsInPolygon \/ PlotLossTrend

InitPoly == PolyInit /\ SmoothIdle /\ RiskIdle /\ AppIdle /\ LoadIdle /\ DrawIdle

SpecPoly == InitPoly /\ [][PolyNext]_vars

\* The loader on any rows.
LoadNext == loadHistoricalData

InitLoad == LoadInit /\ HistIdle /\ SmoothIdle /\ RiskIdle /\ AppIdle /\ DrawIdle

SpecLoad == InitLoad /\ [][LoadNext]_vars

\* The Historical Trends section over the user's drawing and deleting.
DrawNext ==
    \/ UserDraw
    \/ UserDelete
    \/ Revisit
    \/ HistoricalTrends
    \/ FilterPointsInPolygon
    \/ PlotLossTrend

InitDraw == DrawInit /\ SmoothIdle /\ RiskIdle /\ AppIdle /\ LoadIdle

SpecDraw == InitDraw /\ [][DrawNext]_vars

\* The aggregation on filtered samples of any labels and counts.
AggNext == PlotLossTrend

InitAgg == AggInit /\ SmoothIdle /\ RiskIdle /\ AppIdle /\ LoadIdle /\ DrawIdle

SpecAgg == InitAgg /\ [][AggNext]_vars

\* apply_smoothing on any frame and resolution.
SmoothNext == SmoothCoerce \/ SmoothBin \/ SmoothFilter \/ SmoothEmit

InitSmooth == SmoothInit /\ HistIdle /\ RiskIdle /\ AppIdle /\ LoadIdle /\ DrawIdle

SpecSmooth == InitSmooth /\ [][SmoothNext]_vars

\* The Classifier tab on any smoothed predictions.
RiskNext == ClassifierTab

InitRisk == RiskInit /\ HistIdle /\ SmoothIdle /\ AppIdle /\ LoadIdle /\ DrawIdle

SpecRisk == InitRisk /\ [][RiskNext]_vars

\* The script runs of a session.
AppNext ==
    \/ LoadHistorical
    \/ LoadLSTM
    \/ LoadClassifier
    \/ Sidebar
    \/ Dispatch
    \/ UserClick
    \/ Reload
    \/ FileChange

InitApp == AppInit /\ HistIdle /\ SmoothIdle /\ RiskIdle /\ LoadIdle /\ DrawIdle

SpecApp == InitApp /\ [][AppNext]_vars

(***************************************************************************)
(* Properties of the historical pipeline.                                  *)
(***************************************************************************)
RECURSIVE TotalOver(_, _, _)
TotalOver(rows, label, left) ==
    IF left = {} THEN 0
    ELSE LET i == CHOOSE k \in left : TRUE
         IN  (IF rows[i]["label"] = label THEN rows[i]["count"] ELSE 0)
             + TotalOver(rows, label, left \ {i})

LabelCounts(frame) == [i \in 1..Len(frame.rows) |-> <<frame.rows[i]["label"], frame.rows[i]["count"]>>]

YearCounts(frame) == [i \in 1..Len(frame.rows) |-> <<frame.rows[i]["year"], frame.rows[i]["loss_pixels"]>>]

\* C1: the aggregate of plot_loss_trend has one record per distinct lossYear
\* of the input, with year = 2000 + lossYear and the sum of the counts of the
\* samples sharing that lossYear, in strictly ascending order of year;
\* [(1,10),(1,5),(2,3)] gives [(2001,15),(2002,3)].
C1_AggregationCorrect ==
    (hist_pc = "done" /\ hist_out = "plot") =>
        LET rows   == filtered_df.rows
            labels == {rows[i]["label"] : i \in 1..Len(rows)}
            out    == trend_df.rows
        IN  /\ Len(out) = Cardinality(labels)
            /\ {out[k]["year"] : k \in 1..Len(out)} = {2000 + l : l \in labels}
            /\ \A k \in 1..Len(out) :
                   out[k]["loss_pixels"] =
                       TotalOver(rows, out[k]["year"] - 2000, 1..Len(rows))
            /\ \A k \in 1..(Len(out) - 1) : out[k]["year"] < out[k + 1]["year"]
            /\ (LabelCounts(filtered_df) = <<<<1, 10>>, <<1, 5>>, <<2, 3>>>>
                   => YearCounts(trend_df) = <<<<2001, 15>>, <<2002, 3>>>>)

\* Witness of C1: three samples, two of them sharing a year, the years not in
\* order, aggregated into two records.
C1_Witness ==
    /\ hist_pc = "done"
    /\ hist_out = "plot"
    /\ LabelCounts(filtered_df) = <<<<2, 3>>, <<1, 10>>, <<1, 5>>>>
    /\ YearCounts(trend_df) = <<<<2001, 15>>, <<2002, 3>>>>

\* Strictly inside a convex ring: strictly on the same side of every edge.
InsideConvex(ring, p) ==
    LET edges == 1..(Len(ring) - 1)
    IN  \/ \A e \in edges : Cross(ring[e], ring[e + 1], p) > 0
        \/ \A e \in edges : Cross(ring[e], ring[e + 1], p) < 0

LonLats(frame) == [i \in 1..Len(frame.rows) |-> <<frame.rows[i]["lon"], frame.rows[i]["lat"]>>]

\* C2: filter_points_in_polygon returns exactly the samples whose point
\* (x = lon, y = lat) lies inside the polygon, in the input's order, none
\* added or duplicated; the square (0,0),(0,10),(10,10),(10,0) applied to
\* (5,5),(15,15),(-1,5) returns only (5,5).
C2_FilterExact ==
    (hist_pc \in {"filtered", "done"}) =>
        LET ring == polygon.geometry.coordinates[1]
            n    == Len(loss_df.rows)
            m    == Len(filtered_df.rows)
            kept == Range(filtered_df.index)
        IN  /\ \A k \in 1..(m - 1) : filtered_df.index[k] < filtered_df.index[k + 1]
            /\ \A k \in 1..m : \E i \in 1..n :
                   /\ loss_df.index[i] = filtered_df.index[k]
                   /\ \A c \in Range(LossColumns) :
                          filtered_df.rows[k][c] = loss_df.rows[i][c]
            /\ \A i \in 1..n :
                   LET p == <<loss_df.rows[i]["lon"], loss_df.rows[i]["lat"]>>
                   IN  /\ (loss_df.index[i] \in kept) <=> PolygonContains(ring, p)
                       /\ ring \in ConvexRings =>
                              ((loss_df.index[i] \in kept) <=> InsideConvex(ring, p))
            /\ (ring = SquareRing /\ LonLats(loss_df) = <<<<5, 5>>, <<15, 15>>, <<-1, 5>>>>)
                   => LonLats(filtered_df) = <<<<5, 5>>>>

\* Witness of C2: the spec's example, filtered.
C2_Witness ==
    /\ hist_pc = "filtered"
    /\ polygon.geometry.coordinates[1] = SquareRing
    /\ LonLats(loss_df) = <<<<5, 5>>, <<15, 15>>, <<-1, 5>>>>
    /\ LonLats(filtered_df) = <<<<5, 5>>>>

\* C8: an empty sample set given to filter_points_in_polygon returns an empty
\* output, and an empty sample set given to plot_loss_trend yields the "no
\* points found" warning and no aggregate; neither call stops short.
C8_EmptyInputHandled ==
    /\ (hist_pc = "start" /\ FrameLen(loss_df) = 0) => ENABLED FilterPointsInPolygon
    /\ (hist_pc # "start" /\ FrameLen(loss_df) = 0) => FrameLen(filtered_df) = 0
    /\ (hist_pc = "filtered" /\ FrameLen(filtered_df) = 0) => ENABLED PlotLossTrend
    /\ (hist_pc = "done" /\ FrameLen(filtered_df) = 0) =>
           (hist_out = "warning" /\ trend_df = EmptyFrame)

\* Witness of C8: the empty table went through the filter and the aggregation.
C8_Witness ==
    /\ hist_pc = "done"
    /\ FrameLen(loss_df) = 0
    /\ FrameLen(filtered_df) = 0
    /\ hist_out = "warning"

(***************************************************************************)
(* Properties of apply_smoothing.                                          *)
(***************************************************************************)
Cells(n) == (1..n) \X (1..n)

RowTotal(g, i) == SeqSum(g[i], 1)

ColTotal(g, j) == SeqSum([i \in 1..Len(g) |-> g[i][j]], 1)

GridTotal(g) == SeqSum([i \in 1..Len(g) |-> RowTotal(g, i)], 1)

\* The centre of the cell k of an axis from lo to hi cut into res - 1 cells:
\* lo + (2k - 1) (hi - lo) / (2 (res - 1)).
CentreOf(lo, hi, res, k) ==
    [num |-> 2 * lo * (res - 1) + (2 * k - 1) * (hi - lo),
     den |-> 2 * (res - 1)]

\* C4: for an input that is not empty after coercion, apply_smoothing emits
\* one point for each grid cell whose smoothed value is > 0 and none for any
\* other cell: every emitted probability is > 0, at most (resolution - 1)^2
\* points are emitted, and the points are the cells with a smoothed value
\* > 0 in row-major order, each with its cell's centre and smoothed value.
C4_EmitsPositiveCells ==
    (sm_pc = "done") =>
        \E ends \in {<<SeqMin(Values(df, "lat")), SeqMax(Values(df, "lat")),
                        SeqMin(Values(df, "lon")), SeqMax(Values(df, "lon"))>>} :
            LET n   == resolution - 1
                row(f) == ((f - 1) \div n) + 1
                col(f) == ((f - 1) % n) + 1
                pos == {f \in 1..(n * n) : smoothed_probs[row(f)][col(f)] > 0}
                rank(f) == Cardinality({e \in pos : e <= f})
            IN  /\ Len(smoothed_points) = Cardinality(pos)
                /\ Len(smoothed_points) <= n * n
                /\ \A k \in 1..Len(smoothed_points) : smoothed_points[k].prob > 0
                /\ \A f \in pos :
                       smoothed_points[rank(f)] =
                           [lat  |-> CentreOf(ends[1], ends[2], resolution, row(f)),
                            lon  |-> CentreOf(ends[3], ends[4], resolution, col(f)),
                            prob |-> smoothed_probs[row(f)][col(f)]]

\* Witness of C4: a grid with a cell that is emitted though no sample fell
\* into it, and a cell that is not emitted.
C4_Witness ==
    /\ sm_pc = "done"
    /\ \E c \in Cells(resolution - 1) :
           counts[c[1]][c[2]] = 0 /\ smoothed_probs[c[1]][c[2]] > 0
    /\ \E c \in Cells(resolution - 1) : smoothed_probs[c[1]][c[2]] = 0
    /\ Len(smoothed_points) > 0

\* What the histogram has along one axis: the cell k holds the samples from
\* its lower edge up to, not including, its upper edge; the last cell holds
\* its upper edge too.
AxisBinned(xs, bins, total(_)) ==
    LET n == Len(bins.num) - 1
    IN  \A k \in 1..n :
            total(k) = Cardinality({s \in 1..Len(xs) :
                           /\ bins.num[k] <= xs[s] * bins.den
                           /\ \/ xs[s] * bins.den < bins.num[k + 1]
                              \/ k = n})

AxisMaxInLast(xs, total(_), n) ==
    total(n) >= Cardinality({s \in 1..Len(xs) : xs[s] = SeqMax(xs)})

AxisMinInFirst(xs, total(_)) ==
    total(1) >= Cardinality({s \in 1..Len(xs) : xs[s] = SeqMin(xs)})

Binned == sm_pc \in {"binned", "smoothed", "done"}

\* C5, as the code has it: every coerced sample is counted in exactly one
\* cell, the one whose edges bracket it on each axis; a sample at the axis
\* maximum falls into the last bin; a sample at the axis minimum falls into
\* the first bin when the first edge is below the second (the axis minimum is
\* below the axis maximum).
C5_BinningCoverage ==
    Binned =>
        LET lats == Values(df, "lat")
            lons == Values(df, "lon")
            n    == resolution - 1
            row(k) == RowTotal(counts, k)
            col(k) == ColTotal(counts, k)
        IN  /\ GridTotal(counts) = Len(df.rows)
            /\ \A c \in Cells(n) : counts[c[1]][c[2]] >= 0
            /\ AxisBinned(lats, lat_bins, row)
            /\ AxisBinned(lons, lon_bins, col)
            /\ AxisMaxInLast(lats, row, n)
            /\ AxisMaxInLast(lons, col, n)
            /\ SeqMin(lats) < SeqMax(lats) => AxisMinInFirst(lats, row)
            /\ SeqMin(lons) < SeqMax(lons) => AxisMinInFirst(lons, col)

\* C5 as claimed: a sample at the axis minimum falls into the first bin and
\* a sample at the axis maximum into the last, whatever the samples.
C5_AsClaimed ==
    Binned =>
        LET lats == Values(df, "lat")
            lons == Values(df, "lon")
            n    == resolution - 1
            row(k) == RowTotal(counts, k)
            col(k) == ColTotal(counts, k)
        IN  /\ GridTotal(counts) = Len(df.rows)
            /\ AxisMaxInLast(lats, row, n)
            /\ AxisMaxInLast(lons, col, n)
            /\ AxisMinInFirst(lats, row)
            /\ AxisMinInFirst(lons, col)

\* Witness of C5: two samples at the two ends of both axes of a grid of more
\* than one cell, binned into the first and the last cell.
C5_Witness ==
    /\ sm_pc = "binned"
    /\ resolution > 2
    /\ Len(df.rows) = 2
    /\ SeqMin(Values(df, "lat")) < SeqMax(Values(df, "lat"))
    /\ SeqMin(Values(df, "lon")) < SeqMax(Values(df, "lon"))
    /\ RowTotal(counts, 1) = 1
    /\ RowTotal(counts, resolution - 1) = 1

\* A cell with a sample within the kernel's reach of the cell c.
Supported(c, n) ==
    \E a \in Cells(n) :
        /\ counts[a[1]][a[2]] > 0
        /\ Abs(a[1] - c[1]) <= KernelRadius
        /\ Abs(a[2] - c[2]) <= KernelRadius

\* C6: apply_smoothing emits no point for a cell that had no sample and all
\* of whose neighbours within the kernel radius had none, the cells at the
\* border of the grid included.
C6_ConservationOfSupport ==
    (sm_pc = "done") =>
        LET n == resolution - 1
        IN  /\ \A c \in Cells(n) :
                   ~Supported(c, n) => ~Emits(smoothed_probs[c[1]][c[2]])
            /\ Len(smoothed_points) <= Cardinality({c \in Cells(n) : Supported(c, n)})

\* Witness of C6: a grid with a border cell out of the reach of every sample
\* and not all cells emitted.
C6_Witness ==
    /\ sm_pc = "done"
    /\ \E c \in Cells(resolution - 1) :
           /\ c[1] = 1
           /\ ~Supported(c, resolution - 1)
    /\ Len(smoothed_points) > 0
    /\ Len(smoothed_points) < (resolution - 1) * (resolution - 1)

(***************************************************************************)
(* Properties of the drawing handler.                                      *)
(***************************************************************************)
\* C14: each time the user finalizes a polygon, the filter is invoked in the
\* run that follows, with the polygon just finalized, also when an earlier
\* drawing is still on the map.
C14_FilterUsesFinalized ==
    (draw_pc # "rerun" /\ finalized # NoDrawing) =>
        (draw_pc = "filter" /\ polygon = finalized)

\* C16: once polygon_updated is set, it is True exactly when the key polygon
\* is present; a present polygon comes with polygon_updated = True; the
\* stored polygon is the first element of the most recent non-empty list of
\* drawings.
C16_SessionStateConsistent ==
    /\ "polygon_updated" \in DOMAIN session_state =>
           (session_state["polygon_updated"] <=> "polygon" \in DOMAIN session_state)
    /\ "polygon" \in DOMAIN session_state =>
           /\ "polygon_updated" \in DOMAIN session_state
           /\ Len(recent) > 0
           /\ session_state["polygon"] = recent[1]

\* Witness of C16: two different polygons were on the map, and the stored
\* polygon has been deleted since.
C16_Witness ==
    /\ draw_pc = "shown"
    /\ "polygon" \notin DOMAIN session_state
    /\ "polygon_updated" \in DOMAIN session_state
    /\ ~session_state["polygon_updated"]
    /\ Len(recent) = 2
    /\ recent[1] # recent[2]

\* C15: for every grid cell the mean fed to the kernel is weightedSum / count
\* when the cell's count is > 0 and exactly 0 when the count is 0; no cell
\* holds the result of a division by zero.  (avg_probs is in units of
\* 1 / MeanScale.)
C15_MeanProbDefined ==
    Binned =>
        \A c \in Cells(resolution - 1) :
            /\ counts[c[1]][c[2]] > 0 =>
                   avg_probs[c[1]][c[2]] * counts[c[1]][c[2]]
                       = heatmap_grid[c[1]][c[2]] * MeanScale
            /\ counts[c[1]][c[2]] = 0 => avg_probs[c[1]][c[2]] = 0
            /\ avg_probs[c[1]][c[2]] \in Nat

\* Witness of C15: a cell with two samples whose mean is no whole number,
\* next to a cell with no sample.
C15_Witness ==
    /\ sm_pc = "binned"
    /\ \E c \in Cells(resolution - 1) :
           /\ counts[c[1]][c[2]] = 2
           /\ heatmap_grid[c[1]][c[2]] = MaxProb
           /\ 2 * avg_probs[c[1]][c[2]] = MaxProb * MeanScale
    /\ \E c \in Cells(resolution - 1) :
           counts[c[1]][c[2]] = 0 /\ avg_probs[c[1]][c[2]] = 0

\* C7: a sample set that is empty, or empty after the rows failing numeric
\* coercion are dropped, gives an empty output and raises nothing.
C7_EmptyGivesEmptyOutput ==
    (sm_pc \in {"done", "raised"} /\ Len(df.rows) = 0) =>
        (sm_pc = "done" /\ smoothed_points = <<>>)

\* C9: the pipeline stages leave their inputs as they were: no step changes
\* the rows or the columns of loss_df, nor the frame given to apply_smoothing.
C9_InputsUnchanged == [][loss_df' = loss_df /\ cls_df' = cls_df]_vars

(***************************************************************************)
(* Properties of the Classifier tab.                                       *)
(***************************************************************************)
Probs(frame) == [i \in 1..Len(frame.rows) |-> frame.rows[i]["prob"]]

Kept(frame) == Range(frame.index)

\* The tier a probability belongs to, by half-open intervals.
InTier(p, level) ==
    CASE level = "Low"    -> LOW <= p /\ p < MED
      [] level = "Medium" -> MED <= p /\ p < HIGH
      [] level = "High"   -> HIGH <= p
      [] OTHER            -> LOW <= p

Tiers == {"Low", "Medium", "High"}

\* C3: with LOW = 0.04, MED = 0.19, HIGH = 0.29 the selection keeps exactly
\* the points of the chosen half-open interval; the three tiers are disjoint,
\* their union is "All", a point of "All" is in exactly one tier, a point
\* below LOW is in no selection, 0.19 is Medium and 0.29 is High.
C3_RiskTiersHalfOpen ==
    (risk_pc = "shown") =>
        LET n == Len(classifier_df.rows)
            sel(level) == Kept(RiskFilter(classifier_df, level))
        IN  /\ LOW = 4 /\ MED = 19 /\ HIGH = 29
            /\ \A i \in 1..n :
                   LET p == classifier_df.rows[i]["prob"]
                       x == classifier_df.index[i]
                   IN  /\ (x \in Kept(risk_df)) <=> InTier(p, risk_level)
                       /\ \A level \in Range(RiskOptions) :
                              (x \in sel(level)) <=> InTier(p, level)
                       /\ p >= LOW => Cardinality({t \in Tiers : x \in sel(t)}) = 1
                       /\ p < LOW => \A level \in Range(RiskOptions) : x \notin sel(level)
                       /\ p = 19 => x \in sel("Medium") /\ x \notin sel("Low")
                       /\ p = 29 => x \in sel("High") /\ x \notin sel("Medium")
                       /\ p = 3 => x \notin sel("All")
            /\ \A s, t \in Tiers : s # t => sel(s) \cap sel(t) = {}
            /\ UNION {sel(t) : t \in Tiers} = sel("All")
            /\ \A k \in 1..Len(risk_df.rows) :
                   \E i \in 1..n :
                       /\ classifier_df.index[i] = risk_df.index[k]
                       /\ classifier_df.rows[i]["prob"] = risk_df.rows[k]["prob"]

\* Witness of C3: "Medium" selected on a point at 0.19 and one at 0.29.
C3_Witness ==
    /\ risk_pc = "shown"
    /\ risk_level = "Medium"
    /\ Probs(classifier_df) = <<19, 29>>
    /\ Probs(risk_df) = <<19>>

(***************************************************************************)
(* Properties of the script run.                                           *)
(***************************************************************************)
\* The sections that read what a loader returns.
Consumers(path) ==
    IF path = LOSS_PATH THEN {"Historical Trends"} ELSE {"Models"}

\* C10: when one input file is absent, a message is shown and only the
\* section that consumes the file is halted: a run on a section that does
\* not consume it renders the navigation and the section.
C10_MissingSourceHaltsOnlyItsSection ==
    (run_pc \in {"done", "stopped"} /\ Cardinality(Paths \ files) = 1) =>
        \A path \in Paths \ files :
            /\ (section \in Consumers(path) /\ path \notin cache)
                   => ErrorOf(path) \in page
            /\ section \notin Consumers(path)
                   => (Nav \in page /\ SectionOf(section) \in page)

(***************************************************************************)
(* Properties of the loader.                                               *)
(***************************************************************************)
\* A row as the contract has it: a geometry that parses, with a two-element
\* coordinate array.
WellFormed(row) == row.geo.json /\ Len(row.geo.coordinates) = 2

\* A geometry that fails to parse, or an array of fewer than two elements.
Malformed(row) == ~row.geo.json \/ Len(row.geo.coordinates) < 2

\* C11: for well-formed rows the loader's output has lon = the first and
\* lat = the second element of the coordinate array, label and count
\* retained; if a row's geometry fails to parse or its array has fewer than
\* two elements the whole load fails, and no table with rows dropped is
\* ever returned.
C11_LoaderParsesOrFails ==
    (load_pc \in {"returned", "raised"}) =>
        LET n == Len(raw_df.rows)
        IN  /\ (\E i \in 1..n : Malformed(raw_df.rows[i]))
                   => (load_pc = "raised" /\ loaded_df = EmptyFrame)
            /\ (n > 0 /\ \A i \in 1..n : WellFormed(raw_df.rows[i]))
                   => load_pc = "returned"
            /\ load_pc = "returned" =>
                   /\ loaded_df.columns = LossColumns
                   /\ Len(loaded_df.rows) = n
                   /\ \A i \in 1..n :
                          /\ loaded_df.rows[i]["lon"] = raw_df.rows[i].geo.coordinates[1]
                          /\ loaded_df.rows[i]["lat"] = raw_df.rows[i].geo.coordinates[2]
                          /\ loaded_df.rows[i]["label"] = raw_df.rows[i].label
                          /\ loaded_df.rows[i]["count"] = raw_df.rows[i].count

\* Witness of C11: two well-formed rows of different coordinates, loaded.
C11_Witness ==
    /\ load_pc = "returned"
    /\ Len(loaded_df.rows) = 2
    /\ loaded_df.rows[1]["lon"] = 3 /\ loaded_df.rows[1]["lat"] = 7
    /\ loaded_df.rows[2]["lon"] = 8 /\ loaded_df.rows[2]["lat"] = 2

\* A ring of fewer than 3 vertices, or one that does not close.
Degenerate(ring) ==
    \/ ring[1] # ring[Len(ring)]
    \/ Len(ring) - 1 < 3

\* C12: for a degenerate polygon (fewer than 3 vertices, or a ring that does
\* not close) filter_points_in_polygon signals an error; it never returns
\* normally, be it with all, some or none of the points.
C12_DegenerateSignalled ==
    (hist_pc \in {"filtered", "done", "raised"}
         /\ Degenerate(polygon.geometry.coordinates[1]))
        => hist_pc = "raised"

\* C13: the smoothing stage is memoized: in a session whose source files do
\* not change, apply_smoothing runs at most once, whatever the user clicks.
C13_SmoothingRunsOnce == smooth_calls <= 1

=============================================================================
